---- MODULE Spec2Model ----
(***************************************************************************)
(* The cooperative task core of async-rust: the leaf tasks (FakeWorker,    *)
(* ThreadTimer, ThreadedFakeWorker), the thread-backed waker, the          *)
(* park-based driver block_thread_on, the CollapsableFuture wrapper and    *)
(* the Join combinator.                                                    *)
(*                                                                         *)
(* One driver thread polls one top-level task; every started leaf has one  *)
(* worker thread.  A poll of a threaded leaf is three steps (store the     *)
(* waker, spawn, read the readiness) that interleave with the worker.      *)
(*                                                                         *)
(* Values are flat sequences of strings: Poll::Pending is <<"Pending">>,   *)
(* Poll::Ready(v) is <<"Ready">> \o v, () is <<"()">>, Ok((a, b)) is       *)
(* <<"Ok", a, b>>, Err(InnerFutureSpentError) is                           *)
(* <<"Err", "InnerFutureSpentError">>.                                     *)
(***************************************************************************)
EXTENDS Integers, Sequences, FiniteSets, TLC

\* ---------------------------------------------------------------- bounds
\* largest work_remaining a FakeWorker is created with
MaxWork == 3
\* polls a manual caller makes of one task
MaxPolls == 4
\* spurious returns of std::thread::park in one run
MaxSpurious == 1
\* extract calls a manual caller makes on one CollapsableFuture
MaxExtracts == 2
\* polls of a busy-polling driver that the history of a run tells apart: the
\* driver polls on without a bound, later polls count as this one
MaxCounted == 3

\* calls of next() a caller makes by hand
MaxCalls == 16

\* the largest n of take(n)
MaxTake == 16

\* width of FakeWorker::work_remaining (u8)
U8 == 256

\* the largest i32, the type of loop_executor's loop_counter
I32Max == 2147483647

Leaves == {1, 2}
Kinds == {"FakeWorker", "ThreadTimer", "ThreadedFakeWorker"}

VARIABLES
    top,            \* the task handed to the driver: "Leaf", "Collapsable", "Join"
    drv,            \* "block" (block_thread_on), "loop" (loop_executor) or
                    \* "manual" (a caller that polls by hand)
    kind,           \* kind[i]: the type of leaf i
    work0,          \* work0[i]: the work_remaining leaf i was created with
    work_remaining, \* FakeWorker::work_remaining
    join_handle,    \* join_handle[i]: TRUE when Some(JoinHandle)
    waker,          \* the Waker in the leaf's Arc<Mutex<Waker>>
    is_complete,    \* ThreadTimer::is_complete
    wpc,            \* the worker thread of leaf i: none, sleep, set, wake, exit, finished
    cf,             \* InnerCollapsableFuture of wrapper i: Pending, Ready, Spent
    cfout,          \* the output held by InnerCollapsableFuture::Ready
    dpc,            \* where the driver thread is
    cur,            \* the child being polled
    cx,             \* the Waker of the Context of the poll in progress
    flag,           \* what the poll in progress has read of the leaf's readiness
    r,              \* r1, r2 of Join::poll (the result of a wrapper's poll)
    res,            \* what the last finished poll of the top task returned
    output,         \* what block_thread_on returned
    token,          \* the park token of the driver thread
    ext,            \* what the last CollapsableFuture::extract of the caller returned
    npolls,         \* polls of the top task begun so far
    nspurious,      \* spurious returns of park so far
    nextract,       \* extract calls of the manual caller so far
    held,           \* held[i]: the Mutexes the worker of leaf i holds between two steps
    spawned,        \* spawned[i]: worker threads spawned for leaf i so far
    lpolls,         \* lpolls[i]: polls of leaf i begun so far
    hs,             \* hs[i]: the wakers a threaded leaf i was polled with, in order
    obsAt,          \* obsAt[i]: the poll in which leaf i first returned Ready (0: not yet)
    pendAt,         \* pendAt[i]: the last poll of leaf i that returned Pending (0: none)
    wokeH,          \* wokeH[i]: the waker the worker of leaf i invoked ("none": not yet)
    wokeAt,         \* wokeAt[i]: how many polls leaf i had been given when its worker woke
    nwake,          \* unparks of the driver thread since it last took the token
    collapsed,      \* most unparks one call of park found pending and took at once
    atDrop,         \* wpc at the moment the caller dropped the task ("live": not dropped)
    fib,            \* the Fibonacci iterator: [previous, next]
    use             \* the code of main that consumes the iterator

cfgvars == <<top, drv, kind, work0>>
itervars == <<fib, use>>
leafvars == <<work_remaining, join_handle, waker, is_complete, wpc, held, spawned,
             lpolls, hs>>
ctlvars == <<dpc, cur, r, res, output, cf, cfout, obsAt, pendAt, flag>>
parkvars == <<token, nwake, collapsed>>
cntvars == <<npolls, nspurious, nextract>>
wokevars == <<wokeH, wokeAt>>
vars == <<top, drv, kind, work0, work_remaining, join_handle, waker, is_complete, wpc,
          cf, cfout, dpc, cur, cx, flag, r, res, output, token, ext, npolls,
          nspurious, nextract, held, spawned, lpolls, hs, obsAt, pendAt, wokeH, wokeAt,
          nwake, collapsed, atDrop, fib, use>>

\* ---------------------------------------------------------------- values
Pending == <<"Pending">>
Ready(v) == <<"Ready">> \o v
IsReady(p) == p[1] = "Ready"
Unit == <<"()">>
AllDone == <<"All done!">>
SpentErr == <<"Err", "InnerFutureSpentError">>
OkUnit == <<"Ok">>
NoneOpt == <<"None">>
SomeOpt(v) == <<"Some">> \o v
Panic(msg) == <<"panic", msg>>

\* Future::Output of a leaf
LeafOutput(k) == IF k = "FakeWorker" THEN AllDone ELSE Unit

\* the Wakers the next poll may be given: block_thread_on polls with its
\* ThreadWaker, loop_executor with Waker::noop(); a manual caller polls
\* FakeWorkers with Waker::noop() as poll-manually does, and a task with a
\* worker thread with a waker of its own: H1 at first and, from some poll on,
\* another one, H2
Handles ==
    CASE drv = "block" -> {"thread"}
      [] drv = "loop" -> {"noop"}
      [] drv = "manual" ->
           IF \A i \in Leaves : kind[i] = "FakeWorker" THEN {"noop"}
           ELSE IF npolls = 0 THEN {"H1"}
           ELSE IF cx = "H1" THEN {"H1", "H2"}
           ELSE {cx}

\* ---------------------------------------------------------------- start
\* the state after the constructors (ThreadTimer::new, ThreadedFakeWorker::new,
\* CollapsableFuture::new, Join::new), whatever the task and the driver are
Constructed ==
    /\ work_remaining = work0
    /\ join_handle = [i \in Leaves |-> FALSE]
    /\ waker = [i \in Leaves |-> "noop"]
    /\ is_complete = [i \in Leaves |-> FALSE]
    /\ wpc = [i \in Leaves |-> "none"]
    /\ cf = [i \in Leaves |-> "Pending"]
    /\ cfout = [i \in Leaves |-> <<>>]
    /\ dpc = "poll"
    /\ cur = 1
    /\ cx = "noop"
    /\ flag = FALSE
    /\ r = [i \in Leaves |-> "none"]
    /\ res = <<"none">>
    /\ output = <<"none">>
    /\ token = FALSE
    /\ ext = <<"NotCalled">>
    /\ npolls = 0
    /\ nspurious = 0
    /\ nextract = 0
    /\ held = [i \in Leaves |-> {}]
    /\ spawned = [i \in Leaves |-> 0]
    /\ lpolls = [i \in Leaves |-> 0]
    /\ hs = [i \in Leaves |-> <<>>]
    /\ obsAt = [i \in Leaves |-> 0]
    /\ pendAt = [i \in Leaves |-> 0]
    /\ wokeH = [i \in Leaves |-> "none"]
    /\ wokeAt = [i \in Leaves |-> 0]
    /\ nwake = 0
    /\ collapsed = 0
    /\ atDrop = [i \in Leaves |-> "live"]

\* Fibonacci::new
FibonacciNew == [previous |-> 0, next |-> SomeOpt(<<1>>)]

\* main before it touches an iterator
NotUsed ==
    [mode |-> "none", limit |-> 0, ncalls |-> 0, ret |-> <<"NotCalled">>,
     taken |-> <<>>, pc |-> "idle", result |-> <<"NotCalled">>]

\* no iterator is in use
IterIdle == fib = FibonacciNew /\ use = NotUsed

Init ==
    /\ top \in {"Leaf", "Collapsable", "Join"}
    /\ drv \in {"block", "loop", "manual"}
    /\ top = "Collapsable" => drv = "manual"
    /\ drv = "loop" => top = "Leaf"
    /\ kind \in [Leaves -> Kinds]
    /\ work0 \in [Leaves -> 0..MaxWork]
    /\ \A i \in Leaves : kind[i] # "FakeWorker" => work0[i] = 0
    /\ top # "Join" => kind[2] = "FakeWorker" /\ work0[2] = 0
    /\ Constructed
    /\ IterIdle

\* loop_executor(FakeWorker { work_remaining: n }) for every n a u8 holds
FakeWorkerInit ==
    /\ top = "Leaf"
    /\ drv = "loop"
    /\ kind = [i \in Leaves |-> "FakeWorker"]
    /\ work0 \in [Leaves -> 0..(U8 - 1)]
    /\ work0[2] = 0
    /\ Constructed
    /\ IterIdle

\* ---------------------------------------------------------------- returns
\* the statements of the poll of a threaded leaf, in the order they run
PollOrderCheckFirst == <<"check", "spawn", "store">>

PollOrderSpawnFirst == <<"spawn", "store", "check">>

PollOrder == <<"store", "spawn", "check">>

\* the statement after s in the poll of a threaded leaf, "return" after the last
StepAfter(s) ==
    LET k == CHOOSE j \in 1..Len(PollOrder) : PollOrder[j] = s
    IN IF k < Len(PollOrder) THEN PollOrder[k + 1] ELSE "return"

\* where the driver enters the poll of leaf i
LeafEntry(i) == IF kind[i] = "FakeWorker" THEN "leaf" ELSE PollOrder[1]

\* a driver loop that breaks on whatever the poll returned
TopReturnAny(p) ==
    /\ res' = p
    /\ IF drv = "manual"
       THEN dpc' = "poll" /\ UNCHANGED output
       ELSE dpc' = "done" /\ output' = Tail(p)

\* what the driver does on Poll::Pending: block_thread_on calls park,
\* loop_executor (execute) goes round its loop, a manual caller polls again
\* when it likes
OnPending == IF drv = "block" THEN "park" ELSE "poll"

\* loop_executor's `loop_counter += 1` in the Pending arm, after the n-th poll:
\* loop_counter is an i32 that starts at 1, so it holds n.  At I32Max the
\* addition overflows: a build with overflow checks panics there, a build
\* without them wraps and goes round the loop.  A count of polls of a task with
\* a worker thread that has reached MaxCounted stands for every count from
\* MaxCounted on.
CountPending(n) ==
    IF drv = "loop" /\ (n >= I32Max \/ (kind[1] # "FakeWorker" /\ n >= MaxCounted))
    THEN {OnPending, "panicked"}
    ELSE {OnPending}

\* the driver's match on the result of the poll: block_thread_on parks on
\* Pending, loop_executor polls again, both return on Ready; a manual caller
\* just gets the result
TopReturn(p) ==
    /\ res' = p
    /\ IF drv # "manual" /\ IsReady(p)
       THEN dpc' = "done" /\ output' = Tail(p)
       ELSE /\ dpc' \in CountPending(npolls)
            /\ UNCHANGED output

\* Poll<Result<(), InnerFutureSpentError>> of CollapsableFuture::poll
WrapperPoll(w) ==
    CASE w = "Pending" -> Pending
      [] w = "Ok" -> Ready(OkUnit)
      [] w = "Err" -> Ready(SpentErr)

\* a Join that polls its second child only when the first is not Pending
PollsSecondUnlessPending(r1) == r1 # "Pending"

\* whether Join::poll polls its second child after the first has answered r1:
\* let r1 = ..poll(cx); let r2 = ..poll(cx); come before the match
PollsSecond(r1) == TRUE

\* CollapsableFuture::poll returns w to its caller: Join::poll or the manual caller
WrapperReturn(w) ==
    /\ r' = [r EXCEPT ![cur] = w]
    /\ IF top = "Collapsable"
       THEN TopReturn(WrapperPoll(w)) /\ UNCHANGED cur
       ELSE /\ IF cur = 1 /\ PollsSecond(w)
               THEN cur' = 2 /\ dpc' = "cf"
               ELSE cur' = cur /\ dpc' = "match"
            /\ UNCHANGED <<res, output>>

\* the poll of leaf cur returns p to its caller: the driver or the wrapper
LeafReturn(p) ==
    /\ obsAt' = IF IsReady(p) /\ obsAt[cur] = 0
                THEN [obsAt EXCEPT ![cur] = npolls] ELSE obsAt
    /\ pendAt' = IF IsReady(p) THEN pendAt ELSE [pendAt EXCEPT ![cur] = lpolls'[cur]]
    /\ flag' = FALSE
    /\ IF top = "Leaf"
       THEN TopReturn(p) /\ UNCHANGED <<cf, cfout, r, cur>>
       ELSE IF IsReady(p)
            THEN /\ cf' = [cf EXCEPT ![cur] = "Ready"]
                 /\ cfout' = [cfout EXCEPT ![cur] = Tail(p)]
                 /\ WrapperReturn("Ok")
            ELSE /\ UNCHANGED <<cf, cfout>>
                 /\ WrapperReturn("Pending")

\* the poll of threaded leaf cur has run statement s and has read f of the
\* leaf's readiness so far: it runs the next statement, or returns
Advance(s, f) ==
    IF StepAfter(s) = "return"
    THEN LeafReturn(IF f THEN Ready(Unit) ELSE Pending)
    ELSE /\ dpc' = StepAfter(s)
         /\ flag' = f
         /\ UNCHANGED <<cur, r, res, output, cf, cfout, obsAt, pendAt>>

\* ---------------------------------------------------------------- driver
callvars == <<cx, ext, npolls, nspurious, nextract>>
ghostvars == <<wokeH, wokeAt, atDrop>>

\* one more poll in a count n of polls of a task with a worker thread
Counted(n) == IF drv = "loop" /\ n >= MaxCounted THEN n ELSE n + 1

\* the driver (or the manual caller) calls poll on the top task with a Context
BeginPoll ==
    /\ dpc = "poll"
    /\ drv = "manual" => npolls < MaxPolls
    /\ npolls' = IF kind[1] = "FakeWorker" THEN npolls + 1 ELSE Counted(npolls)
    /\ cx' \in Handles
    /\ cur' = 1
    /\ r' = [i \in Leaves |-> "none"]
    /\ dpc' = IF top = "Leaf" THEN LeafEntry(1) ELSE "cf"
    /\ UNCHANGED itervars
    /\ UNCHANGED <<cfgvars, leafvars, cf, cfout, res, output, obsAt, pendAt, flag,
                   parkvars, ext, nspurious, nextract, ghostvars>>

\* a wrapper that polls its inner task until the output is taken
DelegatesUnlessSpent(state) == state # "Spent"

\* whether CollapsableFuture::poll polls the inner task
Delegates(state) == state = "Pending"

\* a wrapper that answers Pending once its output is gone
PollOfSettledBlocksOnSpent(state) == IF state = "Spent" THEN "Pending" ELSE "Ok"

\* what CollapsableFuture::poll answers when it does not poll the inner task
PollOfSettled(state) == IF state = "Spent" THEN "Err" ELSE "Ok"

\* CollapsableFuture::poll
CollapsablePoll ==
    /\ dpc = "cf"
    /\ IF Delegates(cf[cur])
       THEN /\ dpc' = LeafEntry(cur)
            /\ UNCHANGED <<cur, r, res, output>>
       ELSE WrapperReturn(PollOfSettled(cf[cur]))
    /\ UNCHANGED <<cf, cfout, obsAt, pendAt, flag>>
    /\ UNCHANGED itervars
    /\ UNCHANGED <<cfgvars, leafvars, parkvars, callvars, ghostvars>>

\* the arm of FakeWorker::poll's match that returns Ready
FakeWorkerReadyOffByOne(n) == n = 1

FakeWorkerReady(n) == n = 0

\* work_remaining after FakeWorker::poll, decremented before the match
FakeWorkerRemainingWrap(n) == (n - 1) % U8

\* work_remaining after FakeWorker::poll: decremented in the other arm only
FakeWorkerRemaining(n) == IF n = 0 THEN 0 ELSE (n - 1) % U8

\* FakeWorker::poll
FakeWorkerPoll ==
    /\ dpc = "leaf"
    /\ lpolls' = [lpolls EXCEPT ![cur] = @ + 1]
    /\ work_remaining' =
          [work_remaining EXCEPT ![cur] = FakeWorkerRemaining(work_remaining[cur])]
    /\ LeafReturn(IF FakeWorkerReady(work_remaining[cur])
                  THEN Ready(AllDone) ELSE Pending)
    /\ UNCHANGED itervars
    /\ UNCHANGED <<cfgvars, join_handle, waker, is_complete, wpc, held, spawned, hs,
                   parkvars, callvars, ghostvars>>

\* lpolls once statement s of the poll of leaf cur has run
Entered(s) ==
    IF s = PollOrder[1] THEN [lpolls EXCEPT ![cur] = Counted(@)] ELSE lpolls

\* a poll that stores the waker only when it starts the worker
StoredWakerFirstOnly(i, h) == IF join_handle[i] THEN waker[i] ELSE h

\* the waker in the leaf's Mutex after a poll with the waker h
StoredWaker(i, h) == h

\* ThreadTimer::poll, ThreadedFakeWorker::poll: *fut.waker.lock() = cx.waker().clone()
PollStore ==
    /\ dpc = "store"
    /\ "waker" \notin held[cur]
    /\ lpolls' = Entered("store")
    /\ waker' = [waker EXCEPT ![cur] = StoredWaker(cur, cx)]
    /\ hs' = [hs EXCEPT ![cur] = IF Counted(Len(@)) = Len(@) THEN @ ELSE Append(@, cx)]
    /\ Advance("store", flag)
    /\ UNCHANGED itervars
    /\ UNCHANGED <<cfgvars, work_remaining, join_handle, is_complete, wpc, held,
                   spawned, parkvars, callvars, ghostvars>>

\* a poll that starts a worker whether or not there is one
MustSpawnAlways(i) == TRUE

\* a poll that never starts the worker
MustSpawnNever(i) == FALSE

\* whether this poll starts the worker: fut.join_handle.is_none()
MustSpawn(i) == ~join_handle[i]

\* a worker that locks the flag before it sleeps
HeldAsleepFlag(i) == {"is_complete"}

\* the Mutexes the worker of leaf i holds while it sleeps: sleep(duration) is
\* the first statement of the closure, each lock() comes after it
HeldAsleep(i) == {}

\* ThreadTimer::poll, ThreadedFakeWorker::poll: start the worker if there is none.
\* ThreadedFakeWorker returns Pending from the poll that spawns.
PollSpawn ==
    /\ dpc = "spawn"
    /\ lpolls' = Entered("spawn")
    /\ IF MustSpawn(cur)
       THEN /\ join_handle' = [join_handle EXCEPT ![cur] = TRUE]
            /\ wpc' = [wpc EXCEPT ![cur] = "sleep"]
            /\ held' = [held EXCEPT ![cur] = HeldAsleep(cur)]
            /\ spawned' = [spawned EXCEPT ![cur] = @ + 1]
            /\ IF kind[cur] = "ThreadTimer"
               THEN Advance("spawn", flag)
               ELSE LeafReturn(Pending)
       ELSE /\ Advance("spawn", flag)
            /\ UNCHANGED <<join_handle, wpc, held, spawned>>
    /\ UNCHANGED itervars
    /\ UNCHANGED <<cfgvars, work_remaining, waker, is_complete, hs, parkvars,
                   callvars, ghostvars>>

\* what the poll of threaded leaf i reads to decide: the completion flag of a
\* ThreadTimer, JoinHandle::is_finished of a ThreadedFakeWorker
LeafDone(i) ==
    IF kind[i] = "ThreadTimer" THEN is_complete[i] ELSE wpc[i] = "finished"

\* ThreadTimer::poll, ThreadedFakeWorker::poll: Ready(()) or Pending
PollCheck ==
    /\ dpc = "check"
    /\ kind[cur] = "ThreadTimer" => "is_complete" \notin held[cur]
    /\ lpolls' = Entered("check")
    /\ Advance("check", LeafDone(cur))
    /\ UNCHANGED itervars
    /\ UNCHANGED <<cfgvars, work_remaining, join_handle, waker, is_complete, wpc,
                   held, spawned, hs, parkvars, callvars, ghostvars>>

\* an extract that answers a spent wrapper with None
InnerExtractLenient(state, out) ==
    IF state = "Ready" THEN SomeOpt(out) ELSE NoneOpt

\* InnerCollapsableFuture::extract on the value taken out of the RefCell
InnerExtract(state, out) ==
    CASE state = "Pending" -> NoneOpt
      [] state = "Ready" -> SomeOpt(out)
      [] state = "Spent" -> Panic("Attempted to extract a spent future")

\* CollapsableFuture::extract: what it returns
Extract(i) == InnerExtract(cf[i], cfout[i])

\* an extract that leaves a Pending wrapper as it is
ExtractLeavesPendingAlone(state) == IF state = "Pending" THEN "Pending" ELSE "Spent"

\* an extract that makes a Ready wrapper Pending again
ExtractLeavesRestartable(state) == IF state = "Ready" THEN "Pending" ELSE "Spent"

\* CollapsableFuture::extract: the state it leaves in the RefCell,
\* self.inner.replace(InnerCollapsableFuture::Spent)
ExtractLeaves(state) == "Spent"

\* a match that looks at the first child only
JoinResultFirstOnly(r1, r2) ==
    IF r1 # "Pending"
    THEN IF r1 = "Err" THEN "Err" ELSE "Ok"
    ELSE "Pending"

\* a match that extracts without looking for an error
JoinResultNoErrCheck(r1, r2) ==
    IF r1 # "Pending" /\ r2 # "Pending" THEN "Ok" ELSE "Pending"

\* the match of Join::poll on (r1, r2)
JoinResult(r1, r2) ==
    IF r1 # "Pending" /\ r2 # "Pending"
    THEN IF r1 = "Err" \/ r2 = "Err" THEN "Err" ELSE "Ok"
    ELSE "Pending"

\* the two outputs the wrong way round
JoinPairSwapped(o1, o2) == <<"Ok">> \o o2 \o o1

\* the tuple Join::poll builds of the two extracted outputs
JoinPair(o1, o2) == <<"Ok">> \o o1 \o o2

\* Join::poll after both children were polled
JoinMatch ==
    /\ dpc = "match"
    /\ LET j == JoinResult(r[1], r[2])
           e1 == Extract(1)
           e2 == Extract(2)
       IN CASE j = "Pending" -> TopReturn(Pending) /\ UNCHANGED <<cf, cfout>>
            [] j = "Err" -> TopReturn(Ready(SpentErr)) /\ UNCHANGED <<cf, cfout>>
            [] j = "Ok" ->
                 IF e1[1] # "Some"
                 THEN \* inner.0.extract().unwrap() panics
                      /\ cf' = [cf EXCEPT ![1] = ExtractLeaves(@)]
                      /\ cfout' = [cfout EXCEPT ![1] = <<>>]
                      /\ dpc' = "panicked"
                      /\ UNCHANGED <<res, output>>
                 ELSE IF e2[1] # "Some"
                 THEN \* inner.1.extract().unwrap() panics
                      /\ cf' = [i \in Leaves |-> ExtractLeaves(cf[i])]
                      /\ cfout' = [i \in Leaves |-> <<>>]
                      /\ dpc' = "panicked"
                      /\ UNCHANGED <<res, output>>
                 ELSE /\ cf' = [i \in Leaves |-> ExtractLeaves(cf[i])]
                      /\ cfout' = [i \in Leaves |-> <<>>]
                      /\ TopReturn(Ready(JoinPair(Tail(e1), Tail(e2))))
    /\ UNCHANGED itervars
    /\ UNCHANGED <<cfgvars, leafvars, cur, r, obsAt, pendAt, flag, parkvars,
                   callvars, ghostvars>>

\* a caller that holds a CollapsableFuture calls extract between two polls
ManualExtract ==
    /\ dpc = "poll"
    /\ drv = "manual"
    /\ top = "Collapsable"
    /\ nextract < MaxExtracts
    /\ nextract' = nextract + 1
    /\ ext' = Extract(1)
    /\ cf' = [cf EXCEPT ![1] = ExtractLeaves(@)]
    /\ cfout' = [cfout EXCEPT ![1] = <<>>]
    /\ dpc' = IF Extract(1)[1] = "panic" THEN "panicked" ELSE dpc
    /\ UNCHANGED itervars
    /\ UNCHANGED <<cfgvars, leafvars, cur, r, res, output, obsAt, pendAt, flag,
                   parkvars, cx, npolls, nspurious, ghostvars>>

\* a caller that polls by hand drops the task between two polls; the worker's
\* closure owns its clones of the flag and of the waker
ManualDrop ==
    /\ dpc = "poll"
    /\ drv = "manual"
    /\ dpc' = "dropped"
    /\ atDrop' = wpc
    /\ UNCHANGED itervars
    /\ UNCHANGED <<cfgvars, leafvars, cur, r, res, output, cf, cfout, obsAt, pendAt,
                   flag, parkvars, callvars, wokevars>>

\* std::thread::park is called: it returns at once when the token is there
ParkCall ==
    /\ dpc = "park"
    /\ IF token
       THEN /\ token' = FALSE
            /\ nwake' = 0
            /\ collapsed' = IF nwake > collapsed THEN nwake ELSE collapsed
            /\ dpc' = "poll"
       ELSE dpc' = "parked" /\ UNCHANGED parkvars
    /\ UNCHANGED itervars
    /\ UNCHANGED <<cfgvars, leafvars, cur, r, res, output, cf, cfout, obsAt, pendAt,
                   flag, callvars, ghostvars>>

\* the parked driver is woken by the token
ParkReturn ==
    /\ dpc = "parked"
    /\ token
    /\ token' = FALSE
    /\ nwake' = 0
    /\ dpc' = "poll"
    /\ UNCHANGED collapsed
    /\ UNCHANGED itervars
    /\ UNCHANGED <<cfgvars, leafvars, cur, r, res, output, cf, cfout, obsAt, pendAt,
                   flag, callvars, ghostvars>>

\* park may return spuriously, without a token
ParkSpurious ==
    /\ dpc = "parked"
    /\ nspurious < MaxSpurious
    /\ nspurious' = nspurious + 1
    /\ dpc' = "poll"
    /\ UNCHANGED itervars
    /\ UNCHANGED <<cfgvars, leafvars, cur, r, res, output, cf, cfout, obsAt, pendAt,
                   flag, parkvars, cx, ext, npolls, nextract, ghostvars>>

\* ---------------------------------------------------------------- worker
\* an unpark that is lost when the thread is not parked yet
UnparkIfParked == dpc = "parked"

\* an unpark that takes back the token a former unpark left
UnparkToggle == ~token

\* Thread::unpark of the driver thread, as ThreadWaker::wake calls it: the token
\* is made available whether or not the thread is parked
Unpark == TRUE

\* Waker::wake_by_ref on the waker w: what becomes of the token
Wake(w) == IF w = "thread" THEN Unpark ELSE token

\* a worker thread that ends when its task is dropped
WorkerStopsOnDrop(i) == dpc # "dropped"

\* whether the worker thread of leaf i goes on running: nothing joins, cancels
\* or signals the spawned thread, it is detached when the JoinHandle is dropped
WorkerRuns(i) == TRUE

\* a worker that calls wake without setting the flag
AfterSleepNoFlag(i) == "wake"

\* what the worker of leaf i does after its sleep
AfterSleep(i) == IF kind[i] = "ThreadTimer" THEN "set" ELSE "wake"

\* sleep(duration) ends
WorkerSleep(i) ==
    /\ wpc[i] = "sleep"
    /\ WorkerRuns(i)
    /\ wpc' = [wpc EXCEPT ![i] = AfterSleep(i)]
    /\ UNCHANGED itervars
    /\ UNCHANGED <<cfgvars, work_remaining, join_handle, waker, is_complete, held, spawned,
                   lpolls, hs, ctlvars, parkvars, callvars, ghostvars>>

\* *timer_complete.lock() = true
WorkerSetComplete(i) ==
    /\ wpc[i] = "set"
    /\ WorkerRuns(i)
    /\ is_complete' = [is_complete EXCEPT ![i] = TRUE]
    /\ wpc' = [wpc EXCEPT ![i] = "wake"]
    /\ held' = [held EXCEPT ![i] = @ \ {"is_complete"}]
    /\ UNCHANGED itervars
    /\ UNCHANGED <<cfgvars, work_remaining, join_handle, waker, spawned, lpolls, hs,
                   ctlvars, parkvars, callvars, ghostvars>>

\* waker.lock().wake_by_ref()
WorkerWake(i) ==
    /\ wpc[i] = "wake"
    /\ WorkerRuns(i)
    /\ token' = Wake(waker[i])
    /\ nwake' = IF waker[i] = "thread" THEN nwake + 1 ELSE nwake
    /\ wokeH' = [wokeH EXCEPT ![i] = waker[i]]
    /\ wokeAt' = [wokeAt EXCEPT ![i] = Len(hs[i])]
    /\ wpc' = [wpc EXCEPT ![i] = "exit"]
    /\ held' = [held EXCEPT ![i] = @ \ {"waker"}]
    /\ UNCHANGED itervars
    /\ UNCHANGED <<cfgvars, work_remaining, join_handle, waker, is_complete, spawned,
                   lpolls, hs, ctlvars, callvars, collapsed, atDrop>>

\* the closure has returned: JoinHandle::is_finished is true from now on
WorkerExit(i) ==
    /\ wpc[i] = "exit"
    /\ WorkerRuns(i)
    /\ wpc' = [wpc EXCEPT ![i] = "finished"]
    /\ UNCHANGED itervars
    /\ UNCHANGED <<cfgvars, work_remaining, join_handle, waker, is_complete, held, spawned,
                   lpolls, hs, ctlvars, parkvars, callvars, ghostvars>>

\* ---------------------------------------------------------------- system
Driver ==
    \/ BeginPoll
    \/ CollapsablePoll
    \/ FakeWorkerPoll
    \/ PollStore
    \/ PollSpawn
    \/ PollCheck
    \/ JoinMatch
    \/ ParkCall
    \/ ParkReturn

Worker(i) ==
    \/ WorkerSleep(i)
    \/ WorkerSetComplete(i)
    \/ WorkerWake(i)
    \/ WorkerExit(i)

Next ==
    \/ BeginPoll
    \/ CollapsablePoll
    \/ FakeWorkerPoll
    \/ PollStore
    \/ PollSpawn
    \/ PollCheck
    \/ JoinMatch
    \/ ManualExtract
    \/ ManualDrop
    \/ ParkCall
    \/ ParkReturn
    \/ ParkSpurious
    \/ \E i \in Leaves : WorkerSleep(i)
    \/ \E i \in Leaves : WorkerSetComplete(i)
    \/ \E i \in Leaves : WorkerWake(i)
    \/ \E i \in Leaves : WorkerExit(i)

Spec == Init /\ [][Next]_vars

\* the operating system runs every thread that can run: the driver thread and
\* each worker thread.  A spurious return of park is never promised.
FairSpec ==
    /\ Spec
    /\ WF_vars(Driver)
    /\ \A i \in Leaves : WF_vars(Worker(i))

\* loop_executor polls a FakeWorker until it is Ready
FakeWorkerNext ==
    \/ BeginPoll
    \/ FakeWorkerPoll

FakeWorkerSpec == FakeWorkerInit /\ [][FakeWorkerNext]_vars

\* ---------------------------------------------------------------- iterator
asyncvars == <<cfgvars, leafvars, ctlvars, parkvars, callvars, ghostvars>>

\* the ways main consumes a Fibonacci: calls of next() by hand, last(), a for
\* loop (with or without enumerate), take(n)
Modes == {"next", "last", "for", "take"}

\* an addition that wraps round the width of u8
WrappingAdd(a, b) == SomeOpt(<<(a + b) % U8>>)

\* u8::checked_add
CheckedAdd(a, b) == IF a + b < U8 THEN SomeOpt(<<a + b>>) ELSE NoneOpt

\* a next() that forgets to move previous on
AfterNextKeepsPrevious(f, current) ==
    [previous |-> f.previous, next |-> CheckedAdd(current, f.previous)]

\* the fields of the Fibonacci f once next() has taken current out of f.next
AfterNext(f, current) ==
    [previous |-> current, next |-> CheckedAdd(current, f.previous)]

\* <Fibonacci as Iterator>::next: the fields it leaves and what it returns
FibonacciNext(f) ==
    IF f.next = NoneOpt
    THEN [fib |-> f, ret |-> NoneOpt]
    ELSE LET current == f.next[2]
         IN [fib |-> AfterNext(f, current), ret |-> SomeOpt(<<current>>)]

\* main consumes one Fibonacci::new() in one of the ways it does
IterInit ==
    /\ top = "Leaf"
    /\ drv = "loop"
    /\ kind = [i \in Leaves |-> "FakeWorker"]
    /\ work0 = [i \in Leaves |-> 0]
    /\ Constructed
    /\ fib = FibonacciNew
    /\ \E m \in Modes, n \in 0..MaxTake :
          /\ m # "take" => n = 0
          /\ use = [NotUsed EXCEPT !.mode = m, !.limit = n, !.pc = "run"]

\* whether the consumer calls next() once more: by hand as often as it likes,
\* last() and for until None, take(n) until None or n items
WantsNext ==
    /\ use.pc = "run"
    /\ CASE use.mode = "next" -> use.ncalls < MaxCalls
          [] use.mode \in {"last", "for"} -> use.ret # NoneOpt
          [] use.mode = "take" -> use.ncalls < use.limit /\ use.ret # NoneOpt

\* a call of next() on the iterator
CallNext ==
    /\ WantsNext
    /\ LET n == FibonacciNext(fib)
       IN /\ fib' = n.fib
          /\ use' = [use EXCEPT !.ncalls = @ + 1,
                                !.ret = n.ret,
                                !.taken = IF n.ret = NoneOpt
                                          THEN @ ELSE Append(@, n.ret[2])]
    /\ UNCHANGED asyncvars

\* what Iterator::last returns: the last item it was given, None if none
LastOf(items) == IF items = <<>> THEN NoneOpt ELSE SomeOpt(<<items[Len(items)]>>)

\* last(), the for loop or take(n) stops asking
LoopEnds ==
    /\ use.pc = "run"
    /\ use.mode # "next"
    /\ ~WantsNext
    /\ use' = [use EXCEPT !.pc = "done",
                          !.result = IF use.mode = "last" THEN LastOf(use.taken) ELSE @]
    /\ UNCHANGED <<fib, asyncvars>>

IterNext ==
    \/ CallNext
    \/ LoopEnds

IterSpec == IterInit /\ [][IterNext]_vars

\* ---------------------------------------------------------------- scenarios
\* block_thread_on drives one leaf of kind k
BlockOn(k) == top = "Leaf" /\ drv = "block" /\ kind[1] = k

\* the worker of leaf i has set what it sets and has called wake_by_ref
Notified(i) == wpc[i] \in {"exit", "finished"}

IsReadyOk(p) == Len(p) >= 2 /\ p[1] = "Ready" /\ p[2] = "Ok"

\* a step in which Join::poll returns (or panics)
JoinReturns == top = "Join" /\ dpc = "match" /\ dpc' # "match"

\* both children of the Join have returned Ready, in this poll or an earlier one
BothObserved == obsAt[1] > 0 /\ obsAt[2] > 0

\* ---------------------------------------------------------------- claims

\* C1 as stated: block_thread_on of a FakeWorker returns "All done!" whatever
\* work_remaining is, although a FakeWorker never invokes the waker.
C1_TerminatesWhateverTheTaskDoes ==
    BlockOn("FakeWorker") => <>(dpc = "done" /\ output = AllDone)

\* C1 amended: block_thread_on returns the output as soon as a poll returns
\* Ready: whenever it polls a FakeWorker whose work_remaining is 0 it returns
\* "All done!".  After a Pending it polls again only if something unparks the
\* thread, which a FakeWorker never does.
C1_ReturnsOnceAPollIsReady ==
    BlockOn("FakeWorker") =>
        [](work_remaining[1] = 0 /\ dpc \in {"poll", "leaf"}
              => <>(dpc = "done" /\ output = AllDone))

C1_Witness ==
    /\ BlockOn("FakeWorker")
    /\ dpc = "done"
    /\ output = AllDone
    /\ npolls >= 2

\* C2: block_thread_on returns only what the last poll returned in Ready, after
\* any number of early returns of park, and neither polls nor changes its answer
\* afterwards.
C2_ReturnsOnlyTheReadyOutput ==
    /\ [](drv = "block" /\ dpc = "done" => IsReady(res) /\ output = Tail(res))
    /\ [](drv = "block" /\ dpc # "done" => output = <<"none">>)
    /\ [][drv = "block" /\ dpc = "done"
            => dpc' = "done" /\ npolls' = npolls /\ res' = res /\ output' = output]_vars

C2_Witness ==
    /\ drv = "block"
    /\ dpc = "done"
    /\ nspurious >= 1
    /\ npolls >= 3
    /\ output = Tail(res)

\* C3: once the worker of a ThreadTimer has set the flag and called wake, the
\* driver is never at park or parked without the token: a wake that came before
\* park is called makes that park return at once.
C3_NoLostWakeup ==
    BlockOn("ThreadTimer") /\ Notified(1) /\ dpc \in {"park", "parked"} => token

C3_Witness ==
    /\ BlockOn("ThreadTimer")
    /\ Notified(1)
    /\ dpc = "park"
    /\ token

\* C4: block_thread_on of a ThreadTimer returns () in every interleaving with
\* the worker, when every thread that can run does run.
C4_ThreadTimerDriverReturns ==
    BlockOn("ThreadTimer") => <>(dpc = "done" /\ output = Unit)

C4_Witness ==
    /\ BlockOn("ThreadTimer")
    /\ dpc = "done"
    /\ output = Unit
    /\ npolls >= 2

\* C5 as stated: block_thread_on of a ThreadedFakeWorker, whose readiness is
\* JoinHandle::is_finished, returns in every interleaving.  Runs in which park
\* returns spuriously are left aside: in a refuting run only the worker's wake
\* ends a park.
C5_JoinHandleDriverReturns ==
    BlockOn("ThreadedFakeWorker") => <>(dpc = "done" \/ nspurious > 0)

C7_SingleWorkerStart ==
    /\ [](\A i \in Leaves :
            /\ spawned[i] <= 1
            /\ join_handle[i] <=> spawned[i] = 1
            /\ kind[i] = "FakeWorker" => spawned[i] = 0
            /\ (kind[i] # "FakeWorker" /\ lpolls[i] >= 1
                    /\ ~(cur = i /\ dpc = "spawn")) => spawned[i] = 1)
    /\ [][\A i \in Leaves : join_handle[i] => join_handle'[i]]_vars

C7_Witness ==
    /\ kind[1] = "ThreadTimer"
    /\ lpolls[1] >= 3
    /\ spawned[1] = 1
    /\ ~is_complete[1]

C10_JoinPairing ==
    top = "Join" /\ IsReadyOk(res)
        => res = Ready(<<"Ok">> \o LeafOutput(kind[1]) \o LeafOutput(kind[2]))

C10_Witness ==
    /\ top = "Join"
    /\ IsReadyOk(res)
    /\ obsAt[2] < obsAt[1]
    /\ kind[1] = "FakeWorker"
    /\ kind[2] = "ThreadTimer"

\* block_thread_on drives a Join of two ThreadTimers (examples/join.rs)
BlockOnJoinOfTimers ==
    top = "Join" /\ drv = "block" /\ kind = [i \in Leaves |-> "ThreadTimer"]

\* C11: block_thread_on of a Join of two ThreadTimers returns Ok(((), ())) in
\* every interleaving of the driver and the two workers, when every thread that
\* can run does run; so it does when both workers unpark the driver before it
\* parks and their two wakes leave one token.
C11_JoinOfTimersReturnsOk ==
    BlockOnJoinOfTimers => <>(dpc = "done" /\ output = JoinPair(Unit, Unit))

C11_Witness ==
    /\ BlockOnJoinOfTimers
    /\ dpc = "done"
    /\ output = JoinPair(Unit, Unit)
    /\ collapsed = 2
    /\ nspurious = 0

\* C12: a FakeWorker created with work_remaining = n, for every n a u8 holds,
\* returns Pending from each of its first n polls and Ready("All done!") from
\* poll n + 1 (n = 0: from its first poll); work_remaining counts down from n to
\* 0 and stays there, and no worker thread is ever spawned.
C12_FakeWorkerCountsDown ==
    LET n == work0[1]
        p == lpolls[1]
    IN /\ p <= n + 1
       /\ work_remaining[1] = IF p <= n THEN n - p ELSE 0
       /\ (1 <= p /\ p <= n) => res = Pending
       /\ p = n + 1 <=> res = Ready(AllDone)
       /\ dpc = "done" <=> p = n + 1
       /\ spawned[1] = 0 /\ ~join_handle[1] /\ wpc[1] = "none"

C12_Witness ==
    /\ work0[1] = U8 - 1
    /\ lpolls[1] = U8
    /\ work_remaining[1] = 0
    /\ res = Ready(AllDone)
    /\ dpc = "done"

\* a Join of two FakeWorkers
JoinOfFakeWorkers == top = "Join" /\ kind = [i \in Leaves |-> "FakeWorker"]

\* no poll of the top task is in progress
BetweenPolls == dpc \in {"poll", "park", "parked", "done", "dropped"}

\* C13: a Join of a FakeWorker with work_remaining a and one with
\* work_remaining b returns Pending from each of its first max(a, b) polls and
\* Ready(Ok(("All done!", "All done!"))) from the next, without a panic:
\* with a = 3 and b = 0, Pending three times and Ok from the fourth poll.
C13_JoinOfFakeWorkers ==
    LET m == IF work0[1] >= work0[2] THEN work0[1] ELSE work0[2]
    IN JoinOfFakeWorkers =>
          /\ dpc # "panicked"
          /\ BetweenPolls /\ 1 <= npolls /\ npolls <= m => res = Pending
          /\ BetweenPolls /\ npolls = m + 1
                => res = Ready(JoinPair(AllDone, AllDone))

C13_Witness ==
    /\ JoinOfFakeWorkers
    /\ work0 = <<3, 0>>
    /\ dpc = "poll"
    /\ npolls = 4
    /\ res = Ready(JoinPair(AllDone, AllDone))
    /\ obsAt = <<4, 1>>

\* leaf i is a ThreadTimer or a ThreadedFakeWorker
Threaded(i) == kind[i] # "FakeWorker"

\* the waker leaf i was given in the latest poll that has stored its waker
LastSupplied(i) == IF hs[i] = <<>> THEN "noop" ELSE hs[i][Len(hs[i])]

\* what holds of the stored waker: every poll of a ThreadTimer or
\* ThreadedFakeWorker, the first as the later ones, leaves the waker of that
\* poll in the leaf, and the worker invokes the waker of the latest poll that
\* had stored when it woke
LatestStoredIsWoken ==
    \A i \in Leaves :
        Threaded(i) =>
            /\ waker[i] = LastSupplied(i)
            /\ wokeH[i] # "none" =>
                  /\ wokeAt[i] >= 1
                  /\ wokeH[i] = hs[i][wokeAt[i]]

\* C14 as stated: a ThreadTimer or ThreadedFakeWorker polled with H1 and later
\* with H2 before its worker has finished wakes H2 and not H1: the waker its
\* worker invokes is the one of the last poll that found the worker unfinished
\* (that returned Pending), or of a later poll.
C14_LastPollBeforeFinishIsWoken ==
    \A i \in Leaves :
        Threaded(i) /\ wokeH[i] # "none" /\ pendAt[i] >= 1
            => wokeH[i] \in {hs[i][k] : k \in pendAt[i]..Len(hs[i])}

\* C15: ThreadTimer::poll stores the waker it is given before it reads the
\* flag: when it reads the flag its own waker is the stored one.  So once the
\* worker has set the flag and called wake, the waker it invoked is the one of
\* the last poll that returned Pending or of a later poll: no Pending poll is
\* left without the wake, also when the worker finishes during a poll.
C15_StoreThenCheck ==
    \A i \in Leaves :
        kind[i] = "ThreadTimer" =>
            /\ (dpc = "check" /\ cur = i) =>
                  /\ Len(hs[i]) = lpolls[i]
                  /\ waker[i] = cx
            /\ (Notified(i) /\ pendAt[i] >= 1) =>
                  /\ wokeAt[i] >= pendAt[i]
                  /\ wokeH[i] = hs[i][wokeAt[i]]

C15_Witness ==
    /\ kind[1] = "ThreadTimer"
    /\ dpc = "check"
    /\ cur = 1
    /\ pendAt[1] = 1
    /\ hs[1] = <<"H1", "H2">>
    /\ Notified(1)
    /\ wokeAt[1] = 2
    /\ wokeH[1] = "H2"

\* C16: the unparks ThreadWaker::wake makes are sticky and collapse.  However
\* many (k >= 1) were made since the driver thread last took the token, one
\* token is pending; a call of park that finds it takes it and returns at once;
\* a call of park that finds none blocks, and a blocked park returns by taking
\* a token that arrived since (or spuriously, as std::thread::park may, and
\* then it takes none).
C16_StickyCollapsingWake ==
    /\ [](token <=> nwake >= 1)
    /\ [][dpc = "park" /\ dpc' # dpc
            => IF token
               THEN dpc' = "poll" /\ ~token' /\ nwake' = 0
               ELSE dpc' = "parked" /\ ~token']_vars
    /\ [][dpc = "parked" /\ dpc' # dpc
            => /\ dpc' = "poll"
               /\ \/ token /\ ~token' /\ nwake' = 0
                  \/ nspurious' = nspurious + 1 /\ token' = token]_vars

C16_Witness ==
    /\ drv = "block"
    /\ collapsed = 2
    /\ dpc = "poll"
    /\ ~token
    /\ nwake = 0
    /\ nspurious = 0

\* C17: when neither wrapper answers Pending and one of them answers the
\* spent error, the match of Join::poll chooses the error, whichever of the two
\* it is; the poll then returns Ready(Err(InnerFutureSpentError)), extracts
\* from neither wrapper (both stay as they were) and does not panic.
C17_SpentChildIsAnError ==
    /\ [](\A r1, r2 \in {"Ok", "Err"} :
            (r1 = "Err" \/ r2 = "Err") => JoinResult(r1, r2) = "Err")
    /\ [][(JoinReturns /\ r[1] # "Pending" /\ r[2] # "Pending"
                /\ (r[1] = "Err" \/ r[2] = "Err"))
            => /\ res' = Ready(SpentErr)
               /\ cf' = cf
               /\ cfout' = cfout
               /\ dpc' # "panicked"]_vars

C17_Witness ==
    /\ top = "Join"
    /\ BetweenPolls
    /\ r = <<"Err", "Err">>
    /\ res = Ready(SpentErr)
    /\ cf = [i \in Leaves |-> "Spent"]

\* a step in which CollapsableFuture::poll is called on wrapper cur
WrapperPolled == dpc = "cf" /\ <<dpc, cur>>' # <<dpc, cur>>

\* C18: CollapsableFuture::poll of a wrapper that is Ready returns
\* Ready(Ok(())), every time, and leaves the wrapper Ready with its output in
\* it; of a wrapper that is Spent it returns Ready(Err(InnerFutureSpentError))
\* and leaves it Spent.  It does not poll the inner task, block or panic.
C18_SettledWrapperPoll ==
    /\ [](/\ WrapperPoll(PollOfSettled("Ready")) = Ready(OkUnit)
          /\ WrapperPoll(PollOfSettled("Spent")) = Ready(SpentErr))
    /\ [][(WrapperPolled /\ cf[cur] # "Pending")
            => /\ r'[cur] = IF cf[cur] = "Ready" THEN "Ok" ELSE "Err"
               /\ top = "Collapsable" => res' = WrapperPoll(r'[cur])
               /\ cf' = cf
               /\ cfout' = cfout
               /\ lpolls' = lpolls
               /\ dpc' \notin {"panicked", "leaf", "store", "spawn", "check"}]_vars

C18_Witness ==
    /\ top = "Collapsable"
    /\ dpc = "poll"
    /\ obsAt[1] > 0
    /\ nextract = 1
    /\ npolls > obsAt[1]
    /\ cf[1] = "Spent"
    /\ res = Ready(SpentErr)

\* the poll of leaf i is in progress
InLeafPoll(i) == cur = i /\ dpc \in {"leaf", "store", "spawn", "check"}

\* C19: a task inside a CollapsableFuture (alone or as a child of a Join) is
\* polled only while its wrapper is Pending, and a wrapper is Pending only
\* until its task has returned Ready: the task is never polled after it has
\* returned Ready, so it returns Ready at most once.
C19_NoPollAfterReady ==
    top # "Leaf" =>
        \A i \in Leaves :
            /\ InLeafPoll(i) => cf[i] = "Pending" /\ obsAt[i] = 0
            /\ obsAt[i] > 0 => cf[i] # "Pending"
            /\ (obsAt[i] > 0 /\ kind[i] = "FakeWorker") => lpolls[i] = work0[i] + 1

C19_Witness ==
    /\ top = "Join"
    /\ dpc = "poll"
    /\ res = Pending
    /\ obsAt[1] = 1
    /\ lpolls[1] = 1
    /\ npolls = 3
    /\ lpolls[2] = 3

\* C20: once a poll of a ThreadTimer has spawned the worker, the worker sets
\* the flag and invokes the stored waker, when every thread that can run does
\* run, also when the caller drops the task before that.
C20_WorkerOutlivesDrop ==
    \A i \in Leaves :
        [](kind[i] = "ThreadTimer" /\ wpc[i] = "sleep"
             => <>(is_complete[i] /\ Notified(i) /\ wokeH[i] = LastSupplied(i)))

C20_Witness ==
    /\ kind[1] = "ThreadTimer"
    /\ dpc = "dropped"
    /\ atDrop[1] = "sleep"
    /\ is_complete[1]
    /\ Notified(1)
    /\ wokeH[1] = LastSupplied(1)

\* leaf i has no worker and holds the waker new() put there
NotStarted(i) ==
    /\ wpc[i] = "none"
    /\ ~join_handle[i]
    /\ spawned[i] = 0
    /\ waker[i] = "noop"

\* the first poll of leaf i returned Ready
ReadyAtFirstPoll(i) == obsAt[i] > 0 /\ pendAt[i] = 0

\* C21 as stated: a ThreadTimer or ThreadedFakeWorker has no worker until it
\* is polled, and its first poll never returns Ready, however the new worker
\* is scheduled.
C21_FirstPollIsPending ==
    \A i \in Leaves :
        Threaded(i) =>
            /\ lpolls[i] = 0 => NotStarted(i)
            /\ ~ReadyAtFirstPoll(i)

\* C21 amended: a ThreadTimer or ThreadedFakeWorker has no worker until it is
\* polled; its first poll stores the waker it is given and starts the one
\* worker.  The first poll of a ThreadedFakeWorker returns Pending.  The first
\* poll of a ThreadTimer returns Pending unless the worker has set the flag
\* before the poll reads it, and then it returns Ready(()).
C21_FirstPollStartsWorker ==
    \A i \in Leaves :
        Threaded(i) =>
            /\ lpolls[i] = 0 => NotStarted(i)
            /\ (lpolls[i] >= 1 /\ ~InLeafPoll(i)) =>
                  /\ join_handle[i]
                  /\ spawned[i] = 1
                  /\ Len(hs[i]) >= 1
            /\ kind[i] = "ThreadedFakeWorker" => ~ReadyAtFirstPoll(i)
            /\ ReadyAtFirstPoll(i) => is_complete[i]

C21_Witness ==
    /\ top = "Leaf"
    /\ kind[1] = "ThreadTimer"
    /\ ReadyAtFirstPoll(1)
    /\ lpolls[1] = 1
    /\ spawned[1] = 1
    /\ hs[1] = <<cx>>

\* C22: Join::poll polls both wrapped children on every call, with the same
\* handle and without short-circuit: the match sees an answer of both wrappers,
\* a child not yet Ready has been polled as often as the Join and holds the
\* handle of the latest poll, and after the first poll of a Join of two
\* threaded leaves both workers have been started and both children have
\* stored the handle of that poll.
C22_JoinPollsBoth ==
    top = "Join" =>
        /\ dpc = "match" => \A i \in Leaves : r[i] # "none"
        /\ BetweenPolls =>
              \A i \in Leaves :
                  cf[i] = "Pending" =>
                      /\ lpolls[i] = npolls
                      /\ Threaded(i) /\ npolls >= 1 => waker[i] = cx
        /\ (BetweenPolls /\ npolls >= 1 /\ \A i \in Leaves : Threaded(i)) =>
              /\ spawned = <<1, 1>>
              /\ hs[1][1] = hs[2][1]
              /\ hs[1][1] # "noop"

C22_Witness ==
    /\ top = "Join"
    /\ kind = <<"ThreadTimer", "ThreadTimer">>
    /\ npolls = 1
    /\ BetweenPolls
    /\ r = <<"Pending", "Pending">>
    /\ spawned = <<1, 1>>
    /\ wpc = <<"sleep", "sleep">>
    /\ waker = <<cx, cx>>
    /\ cx # "noop"

\* wrapper i goes from state a to state b in this step
CfMoves(i, a, b) == cf[i] = a /\ cf'[i] = b

\* C23 as stated: the state of a CollapsableFuture only moves Pending -> Ready
\* and Ready -> Spent: Spent is reached only from Ready, Ready never returns
\* to Pending, Spent is never left.
C23_PendingReadySpent ==
    [][\A i \in Leaves :
          cf'[i] # cf[i] =>
              \/ CfMoves(i, "Pending", "Ready")
              \/ CfMoves(i, "Ready", "Spent")]_vars

\* C23 amended: the state of a CollapsableFuture moves Pending -> Ready when
\* the inner task first returns Ready, Ready -> Spent when extract is called,
\* and Pending -> Spent when extract is called before the inner task was
\* Ready (extract then returns None).  Ready never returns to Pending and
\* Spent is never left.
C23_PendingReadyOrSpent ==
    [][\A i \in Leaves :
          cf'[i] # cf[i] =>
              \/ /\ CfMoves(i, "Pending", "Ready")
                 /\ obsAt[i] = 0
                 /\ obsAt'[i] = npolls
              \/ /\ CfMoves(i, "Ready", "Spent")
                 /\ \/ JoinReturns
                    \/ nextract' = nextract + 1 /\ ext' = SomeOpt(cfout[i])
              \/ /\ CfMoves(i, "Pending", "Spent")
                 /\ nextract' = nextract + 1
                 /\ ext' = NoneOpt]_vars

C23_Witness ==
    /\ top = "Collapsable"
    /\ cf[1] = "Spent"
    /\ obsAt[1] = 0
    /\ lpolls[1] >= 1
    /\ nextract = 1
    /\ ext = NoneOpt
    /\ res = Pending

\* extract is called on the wrapper in this step, and the wrapper is Pending
ExtractOfPending == nextract' = nextract + 1 /\ cf[1] = "Pending"

\* the wrapper was extracted before its inner task ever returned Ready
ExtractedWhilePending == top = "Collapsable" /\ cf[1] = "Spent" /\ obsAt[1] = 0

\* C24: CollapsableFuture::extract called while the wrapper is still Pending
\* returns None and leaves the wrapper Spent; from then on the inner task is
\* never polled again and a poll of the wrapper returns
\* Ready(Err(InnerFutureSpentError)).
C24_ExtractOfPendingSpends ==
    [][/\ ExtractOfPending =>
             /\ ext' = NoneOpt
             /\ cf'[1] = "Spent"
             /\ dpc' = dpc
       /\ ExtractedWhilePending =>
             /\ lpolls' = lpolls
             /\ cf' = cf
             /\ WrapperPolled => res' = Ready(SpentErr)]_vars

C24_Witness ==
    /\ ExtractedWhilePending
    /\ kind[1] = "ThreadTimer"
    /\ nextract = 1
    /\ ext = NoneOpt
    /\ lpolls[1] = 1
    /\ npolls = 2
    /\ dpc = "poll"
    /\ res = Ready(SpentErr)

\* the poll of the Join in which both wrappers are first found Ready
FirstBothReady == IF obsAt[1] > obsAt[2] THEN obsAt[1] ELSE obsAt[2]

\* C25: over any sequence of polls of a Join, extract is called on each wrapper
\* exactly once, in the one poll where both wrappers are first found Ready, and
\* only on a wrapper in state Ready: no unwrap in Join::poll fails, and a poll
\* after completion extracts nothing.
C25_JoinExtractsOnce ==
    [][top = "Join" =>
          /\ dpc' # "panicked"
          /\ cf' # cf /\ (\E i \in Leaves : cf'[i] = "Spent") =>
                /\ JoinReturns
                /\ cf = <<"Ready", "Ready">>
                /\ cf' = <<"Spent", "Spent">>
                /\ BothObserved
                /\ npolls = FirstBothReady
                /\ res' = Ready(JoinPair(cfout[1], cfout[2]))
          /\ (\E i \in Leaves : cf[i] = "Spent") =>
                /\ cf' = cf
                /\ JoinReturns => res' = Ready(SpentErr)]_vars

C25_Witness ==
    /\ top = "Join"
    /\ cf = <<"Spent", "Spent">>
    /\ obsAt[1] # obsAt[2]
    /\ npolls > FirstBothReady
    /\ BetweenPolls
    /\ res = Ready(SpentErr)

\* the Mutex the poll of leaf cur locks in its next statement
PollLocks ==
    CASE dpc = "store" -> {"waker"}
      [] dpc = "check" /\ kind[cur] = "ThreadTimer" -> {"is_complete"}
      [] OTHER -> {}

\* C26: a poll never waits for a sleeping worker: the worker of a ThreadTimer
\* or ThreadedFakeWorker holds neither the waker's Mutex nor the flag's while
\* it sleeps, so while the worker sleeps (and before there is a worker) every
\* lock a poll is about to take is free.
C26_PollNeverWaitsForSleep ==
    \A i \in Leaves :
        Threaded(i) /\ wpc[i] \in {"none", "sleep"} =>
            /\ held[i] = {}
            /\ cur = i => PollLocks \cap held[i] = {}

C26_Witness ==
    /\ kind[1] = "ThreadTimer"
    /\ wpc[1] = "sleep"
    /\ cur = 1
    /\ dpc = "check"
    /\ lpolls[1] >= 2
    /\ PollLocks = {"is_complete"}
    /\ held[1] = {}

\* loop_executor (execute) drives one leaf of kind k
LoopOn(k) == top = "Leaf" /\ drv = "loop" /\ kind[1] = k

\* C27 as stated: the busy-poll driver (loop_executor, execute), which polls
\* in a loop with Waker::noop() and never parks, driving a ThreadTimer returns
\* when the threads are scheduled fairly, and returns what block_thread_on
\* returns for the same task: ().
C27_BusyPollReturns ==
    /\ [](LoopOn("ThreadTimer") => dpc # "panicked")
    /\ [](LoopOn("ThreadTimer") => dpc \notin {"park", "parked"} /\ cx = "noop")
    /\ [](top = "Leaf" /\ kind[1] = "ThreadTimer" /\ dpc = "done" => output = Unit)
    /\ LoopOn("ThreadTimer") => <>(dpc = "done" /\ output = Unit)

\* what holds of the busy-poll driver on a ThreadTimer: it never parks, and
\* under fair scheduling it returns () or stops at the overflow of its counter
BusyPollReturnsOrOverflows ==
    /\ [](LoopOn("ThreadTimer") /\ dpc = "panicked" => npolls >= MaxCounted)
    /\ [](LoopOn("ThreadTimer") => dpc \notin {"park", "parked"} /\ cx = "noop")
    /\ LoopOn("ThreadTimer") =>
          <>(dpc = "panicked" \/ (dpc = "done" /\ output = Unit))

\* the worker of ThreadTimer i has invoked the stored waker
TimerNotified(i) == kind[i] = "ThreadTimer" /\ wokeH[i] # "none"

\* C28: whenever the worker of a ThreadTimer has invoked the stored waker, the
\* completion flag is already true: the worker sets the flag before it
\* notifies, so a poll that reads the flag after the notification returns
\* Ready.
C28_FlagSetBeforeNotify ==
    /\ [](\A i \in Leaves : TimerNotified(i) => is_complete[i])
    /\ [][\A i \in Leaves :
             TimerNotified(i) /\ cur = i /\ dpc = "check" /\ dpc' # "check" =>
                 /\ obsAt'[i] > 0
                 /\ top = "Leaf" => res' = Ready(Unit)]_vars

C28_Witness ==
    /\ BlockOn("ThreadTimer")
    /\ TimerNotified(1)
    /\ wokeH[1] = "thread"
    /\ wokeAt[1] = 1
    /\ pendAt[1] = 1
    /\ obsAt[1] = 2
    /\ nspurious = 0
    /\ dpc = "done"
    /\ res = Ready(Unit)

\* C29: the worker of a ThreadTimer or ThreadedFakeWorker never invokes the
\* no-op waker new() installed: there is a worker only once the first poll has
\* stored the waker it was given, so the waker in the Mutex of a leaf with a
\* worker, and the waker the worker invokes, is one a poll supplied (the latest
\* stored when the worker looks); it is a no-op only under the busy-poll
\* driver, which supplies Waker::noop() itself.
C29_WorkerWakesSuppliedHandle ==
    \A i \in Leaves :
        Threaded(i) =>
            /\ wpc[i] # "none" =>
                  /\ Len(hs[i]) >= 1
                  /\ ~InLeafPoll(i) => waker[i] = LastSupplied(i)
                  /\ drv # "loop" => waker[i] # "noop"
            /\ wokeH[i] # "none" =>
                  /\ wokeAt[i] >= 1
                  /\ wokeH[i] = hs[i][wokeAt[i]]
                  /\ drv # "loop" => wokeH[i] # "noop"

C29_Witness ==
    /\ top = "Leaf"
    /\ drv = "manual"
    /\ kind[1] = "ThreadedFakeWorker"
    /\ hs[1] = <<"H1", "H2">>
    /\ wokeAt[1] = 2
    /\ wokeH[1] = "H2"
    /\ wpc[1] = "finished"

\* C30: the two wrappers of a Join are both Spent or neither is: Join::poll
\* never leaves one child extracted and the other not, no unwrap of it fails,
\* and its match never sees exactly one child answer with the error of a spent
\* wrapper.
C30_BothSpentOrNeither ==
    top = "Join" =>
        /\ dpc # "panicked"
        /\ cf[1] = "Spent" <=> cf[2] = "Spent"
        /\ dpc = "match" => (r[1] = "Err" <=> r[2] = "Err")
        /\ dpc = "match" /\ r[1] = "Err" => cf = <<"Spent", "Spent">>

C30_Witness ==
    /\ top = "Join"
    /\ kind = <<"ThreadTimer", "FakeWorker">>
    /\ dpc = "match"
    /\ r = <<"Err", "Err">>
    /\ cf = <<"Spent", "Spent">>
    /\ IsReadyOk(res)
    /\ obsAt[1] > obsAt[2]

\* the items main asserts of the first six calls of next()
FirstSix == <<1, 1, 2, 3, 5, 8>>

\* C31: Fibonacci::new() yields the Fibonacci sequence starting 1, 1, 2, 3, 5,
\* 8: the first two items are 1 and every later item is the sum of the two
\* items before it.
C31_YieldsFibonacci ==
    \A k \in 1..Len(use.taken) :
        /\ k <= 2 => use.taken[k] = 1
        /\ k >= 3 => use.taken[k] = use.taken[k - 1] + use.taken[k - 2]
        /\ k <= Len(FirstSix) => use.taken[k] = FirstSix[k]
        /\ k = Len(use.taken) => fib.previous = use.taken[k]

C31_Witness ==
    /\ use.mode = "next"
    /\ use.ncalls = 6
    /\ use.taken = FirstSix
    /\ use.ret = SomeOpt(<<8>>)
    /\ fib = [previous |-> 8, next |-> SomeOpt(<<13>>)]

\* the iterator has nothing more to give
Exhausted == fib.next = NoneOpt

\* items is every Fibonacci number a u8 holds: it ends with 233, and the sum
\* of its last two items does not fit
AllThatFit(items) ==
    /\ Len(items) = 13
    /\ items[13] = 233
    /\ items[12] + items[13] >= U8

\* C32: the Fibonacci iterator stops instead of overflowing its u8 items: every
\* item and both fields fit in a u8, the last item it yields is 233 (the sum
\* with the item before no longer fits), nothing panics, every call of next()
\* after that returns None and leaves the iterator as it is, and last() and the
\* for loops of main end: last() returns Some(233).
C32_StopsAt233 ==
    /\ \A k \in 1..Len(use.taken) : use.taken[k] \in 1..(U8 - 1)
    /\ fib.previous \in 0..(U8 - 1)
    /\ fib.next # NoneOpt => fib.next[2] \in 1..(U8 - 1)
    /\ Len(use.taken) <= 13
    /\ Exhausted <=> (use.taken # <<>> /\ use.taken[Len(use.taken)] = 233)
    /\ Exhausted => AllThatFit(use.taken) /\ fib.previous = 233
    /\ use.ret = NoneOpt => Exhausted
    /\ use.ncalls > Len(use.taken) => use.ret = NoneOpt
    /\ use.mode \in {"last", "for", "take"} => use.ncalls <= 14
    /\ use.mode \in {"last", "for"} /\ use.pc = "done" => Exhausted
    /\ use.mode = "last" /\ use.pc = "done" => use.result = SomeOpt(<<233>>)

C32_Witness ==
    /\ use.mode = "next"
    /\ use.ncalls = MaxCalls
    /\ use.ncalls >= 15
    /\ use.ret = NoneOpt
    /\ AllThatFit(use.taken)
    /\ fib = [previous |-> 233, next |-> NoneOpt]

====
